---- MODULE Spec2Model ----
(***************************************************************************)
(* The two tutorial notebooks of tike_content, tesscut-in-the-cloud.ipynb  *)
(* and the data-access notebook, as one interactive session: a kernel      *)
(* that executes the code cells of the open notebook statement by          *)
(* statement, the Python names and local files the statements define and   *)
(* read, and the S3 requests and archive downloads they start.             *)
(***************************************************************************)
EXTENDS Integers, Sequences, FiniteSets, TLC

VARIABLES
    notebook,   \* the notebook whose session is open
    names,      \* Python names bound in the session's namespace
    files,      \* files in the working directory (they outlive a session)
    vals,       \* the values bound to (sector, camera, ccd), <<>> before
    cube_file,  \* the string bound to cube_file, "" before
    cloud,      \* Observations has the cloud dataset enabled
    fsAnon,     \* how the s3fs file system bound to fs signs: unset/anon/signed
    running,    \* the cells the kernel is executing
    pc,         \* index of the next statement of the running cell, 0 if idle
    done,       \* cells that reached their end in this session
    error,      \* how the latest execution failed, NoError if it did not
    display,    \* what each cell's output area shows
    requests,   \* direct S3 requests issued in this session
    downloads,  \* archive downloads started in this session
    tasks,      \* work started by a statement and left running behind it
    inOrder     \* the session has run its cells top to bottom so far

vars == <<notebook, names, files, vals, cube_file, cloud, fsAnon, running, pc,
          done, error, display, requests, downloads, tasks, inOrder>>

(***************************************************************************)
(* Bounds of the model.                                                    *)
(***************************************************************************)
MaxSector == 12
MaxCamera == 4
MaxCcd == 4

\* Sector numbers tried: the small ones, the notebook's own (27), and the
\* ones around the places where the zero-padded field changes shape.
Sectors == (0 .. MaxSector) \cup {27, 99, 100, 999, 1000, 9999, 10000, 12345}
Cameras == 1 .. MaxCamera
Ccds == 1 .. MaxCcd

(***************************************************************************)
(* Python's string formatting, as far as the f-string of cell              *)
(* obvious-party uses it.  The values formatted are naturals.              *)
(***************************************************************************)
DigitChar(d) ==
    CASE d = 0 -> "0" [] d = 1 -> "1" [] d = 2 -> "2" [] d = 3 -> "3"
      [] d = 4 -> "4" [] d = 5 -> "5" [] d = 6 -> "6" [] d = 7 -> "7"
      [] d = 8 -> "8" [] d = 9 -> "9"

RECURSIVE ToDecimal(_)
\* str(n) / format(n, "d"): the decimal digits, most significant first
ToDecimal(n) ==
    IF n < 10 THEN DigitChar(n)
    ELSE ToDecimal(n \div 10) \o DigitChar(n % 10)

RECURSIVE ZeroFill(_, _)
\* the "0" fill of a format spec: pad on the left up to the width
ZeroFill(s, width) ==
    IF Len(s) >= width THEN s ELSE ZeroFill("0" \o s, width)

\* the same field padded to a minimum width of 3 instead of 4
Format03d(n) == ZeroFill(ToDecimal(n), 3)

\* the format spec of {sector:04d}: fill "0", minimum width 4
Format04d(n) == ZeroFill(ToDecimal(n), 4)

\* f"s3://stpubdata/tess/public/mast/tess-s{sector:04d}-{camera}-{ccd}-cube.fits"
CubeFile(sector, camera, ccd) ==
    "s3://stpubdata/tess/public/mast/tess-s" \o Format04d(sector) \o "-"
        \o ToDecimal(camera) \o "-" \o ToDecimal(ccd) \o "-cube.fits"

(***************************************************************************)
(* Statements.  A code cell is a sequence of statements; a statement is    *)
(* described by what the session can observe of it:                        *)
(*   kind   import / assign / expr (a bare expression) / shell (a ! line)  *)
(*   op     the library call or command it makes                           *)
(*   uses   the Python names it reads, defs the names it binds             *)
(*   value  what a bare expression evaluates to, semi: it ends in ";"      *)
(*   shows  what it prints or draws while it runs                          *)
(*   path   the S3 object or prefix it addresses, as path components       *)
(*   file   the local file it reads, dest the local file it writes         *)
(*   flags  command-line flags and keyword arguments that matter here      *)
(*   lit    the literal values it assigns                                  *)
(*   bg     it starts work and returns without waiting for it              *)
(***************************************************************************)
Plain ==
    [kind |-> "expr", op |-> "", uses |-> {}, defs |-> {}, value |-> "none",
     semi |-> FALSE, shows |-> {}, path |-> <<>>, file |-> "", dest |-> "",
     flags |-> {}, lit |-> <<>>, bg |-> FALSE]

Import(defs) == [Plain EXCEPT !.kind = "import", !.op = "import", !.defs = defs]
Assign(op, uses, defs) ==
    [Plain EXCEPT !.kind = "assign", !.op = op, !.uses = uses, !.defs = defs]
Expr(op, uses, value) ==
    [Plain EXCEPT !.kind = "expr", !.op = op, !.uses = uses, !.value = value]
Shell(op, path, dest, flags, shows) ==
    [Plain EXCEPT !.kind = "shell", !.op = op, !.path = path, !.dest = dest,
                  !.flags = flags, !.shows = shows]

\* s3://stpubdata/tess/public/
TessPrefix == <<"stpubdata", "tess", "public">>

\* s3://stpubdata/tess/public/tid/s0011/0000/0003/8885/7263/
ProximaPrefix == TessPrefix \o <<"tid", "s0011", "0000", "0003", "8885", "7263">>

\* the Target Pixel File of Proxima Cen in sector 11
ProductFile == "tess2019112060037-s0011-0000000388857263-0143-s_tp.fits"

ProximaObject == ProximaPrefix \o <<ProductFile>>

\* where astroquery's download_products puts a product under download_dir "."
MastDownload == "mastDownload/TESS/" \o ProductFile

\* the name the cutout is saved under and read back from
CutoutFile == "astrocut-result.fits"

(***************************************************************************)
(* The code cells of tesscut-in-the-cloud.ipynb.                           *)
(***************************************************************************)
recent_avenue ==
    << Import({"astrocut"}),
       Expr("__version__", {"astrocut"}, "version") >>

wireless_walker ==
    << Import({"SkyCoord"}),
       Assign("from_name", {"SkyCoord"}, {"target_crd"}) >>

obvious_party ==
    << [Assign("literal", {}, {"sector", "camera", "ccd"})
           EXCEPT !.lit = <<27, 3, 3>>],
       Assign("fstring", {"sector", "camera", "ccd"}, {"cube_file"}) >>

\* conscious-employment with the cutout started as a task nobody waits for
conscious_employment_task ==
    << Import({"nest_asyncio"}),
       Expr("apply", {"nest_asyncio"}, "none"),
       Import({"CutoutFactory"}),
       Assign("CutoutFactory", {"CutoutFactory"}, {"factory"}),
       [Expr("cube_cut", {"factory", "cube_file", "target_crd"}, "path")
           EXCEPT !.dest = CutoutFile, !.bg = TRUE] >>

\* conscious-employment saving the cutout under another name
conscious_employment_renamed ==
    << Import({"nest_asyncio"}),
       Expr("apply", {"nest_asyncio"}, "none"),
       Import({"CutoutFactory"}),
       Assign("CutoutFactory", {"CutoutFactory"}, {"factory"}),
       [Expr("cube_cut", {"factory", "cube_file", "target_crd"}, "path")
           EXCEPT !.dest = "cutout.fits"] >>

conscious_employment ==
    << Import({"nest_asyncio"}),
       Expr("apply", {"nest_asyncio"}, "none"),
       Import({"CutoutFactory"}),
       Assign("CutoutFactory", {"CutoutFactory"}, {"factory"}),
       [Expr("cube_cut", {"factory", "cube_file", "target_crd"}, "path")
           EXCEPT !.dest = CutoutFile] >>

administrative_green ==
    << Import({"lk"}),
       [Assign("read", {"lk"}, {"tpf"}) EXCEPT !.file = CutoutFile],
       [Expr("plot", {"tpf"}, "axes") EXCEPT !.semi = TRUE, !.shows = {"figure"}] >>

(***************************************************************************)
(* The code cells of the data-access notebook, named after what they use.  *)
(***************************************************************************)
astroquery_cell ==
    << Import({"Observations"}),
       Assign("query_object", {"Observations"}, {"obs"}),
       Assign("compare", {"obs"}, {"want"}),
       Assign("get_product_list", {"Observations", "obs", "want"}, {"data_prod"}),
       Assign("filter_products", {"Observations", "data_prod"}, {"filt_prod"}),
       Expr("enable_cloud_dataset", {"Observations"}, "none"),
       [Assign("download", {"Observations", "filt_prod"}, {"manifest"})
           EXCEPT !.dest = MastDownload, !.flags = {"cloud_only"}] >>

\* the lightkurve cell with the download moved above enable_cloud_dataset
lightkurve_cell_late ==
    << Import({"Observations"}),
       Import({"lk"}),
       Assign("search_targetpixelfile", {"lk"}, {"search"}),
       [Assign("download", {"search"}, {"pixelfile"}) EXCEPT !.dest = MastDownload],
       Expr("enable_cloud_dataset", {"Observations"}, "none") >>

lightkurve_cell ==
    << Import({"Observations"}),
       Expr("enable_cloud_dataset", {"Observations"}, "none"),
       Import({"lk"}),
       Assign("search_targetpixelfile", {"lk"}, {"search"}),
       [Assign("download", {"search"}, {"pixelfile"}) EXCEPT !.dest = MastDownload] >>

aws_ls_tess ==
    << Shell("aws_ls", TessPrefix, "", {"--no-sign-request"}, {"listing"}) >>

aws_ls_proxima ==
    << Shell("aws_ls", ProximaPrefix, "", {"--no-sign-request"}, {"listing"}) >>

\* the copy without its --no-sign-request flag
aws_cp_signed ==
    << Shell("aws_cp", ProximaObject, ".", {}, {"transfer"}) >>

aws_cp ==
    << Shell("aws_cp", ProximaObject, ".", {"--no-sign-request"}, {"transfer"}) >>

s3fs_cell ==
    << Import({"s3fs"}),
       [Assign("S3FileSystem", {"s3fs"}, {"fs"}) EXCEPT !.flags = {"anon"}],
       [Expr("s3fs_ls", {"fs"}, "listing")
           EXCEPT !.path = ProximaPrefix, !.flags = {"refresh"}],
       [Assign("s3fs_get", {"fs"}, {"f"})
           EXCEPT !.path = ProximaObject, !.dest = "proxima_cen_tp.fits"] >>

(***************************************************************************)
(* The notebooks: their code cells in document order.                      *)
(***************************************************************************)
Notebooks == {"tesscut", "data"}

Cells(nb) ==
    IF nb = "tesscut"
    THEN <<"recent-avenue", "wireless-walker", "obvious-party",
           "conscious-employment", "administrative-green">>
    ELSE <<"astroquery", "lightkurve", "aws-ls-tess", "aws-ls-proxima",
           "aws-cp", "s3fs">>

CellIds(nb) == {Cells(nb)[i] : i \in 1 .. Len(Cells(nb))}

AllCells == UNION {CellIds(nb) : nb \in Notebooks}

Code(c) ==
    CASE c = "recent-avenue" -> recent_avenue
      [] c = "wireless-walker" -> wireless_walker
      [] c = "obvious-party" -> obvious_party
      [] c = "conscious-employment" -> conscious_employment
      [] c = "administrative-green" -> administrative_green
      [] c = "astroquery" -> astroquery_cell
      [] c = "lightkurve" -> lightkurve_cell
      [] c = "aws-ls-tess" -> aws_ls_tess
      [] c = "aws-ls-proxima" -> aws_ls_proxima
      [] c = "aws-cp" -> aws_cp
      [] c = "s3fs" -> s3fs_cell

\* the position of cell c in its notebook
Index(nb, c) == CHOOSE i \in 1 .. Len(Cells(nb)) : Cells(nb)[i] = c

\* the code cells above c
Preceding(nb, c) == {Cells(nb)[i] : i \in 1 .. (Index(nb, c) - 1)}

(***************************************************************************)
(* The session.                                                            *)
(***************************************************************************)
NoError == [cell |-> "", kind |-> "none"]

NoDisplay == [c \in AllCells |-> {}]

Init ==
    /\ notebook \in Notebooks
    /\ names = {}
    /\ files = {}
    /\ vals = <<>>
    /\ cube_file = ""
    /\ cloud = FALSE
    /\ fsAnon = "unset"
    /\ running = {}
    /\ pc = 0
    /\ done = {}
    /\ error = NoError
    /\ display = NoDisplay
    /\ requests = {}
    /\ downloads = {}
    /\ tasks = {}
    /\ inOrder = TRUE

\* The kernel takes a cell of the open notebook when it is executing none.
\* The cell's old output is cleared, and the cell counts as unfinished.
RunCell(c) ==
    /\ running = {}
    /\ c \in CellIds(notebook)
    /\ running' = {c}
    /\ pc' = 1
    /\ error' = NoError
    /\ display' = [display EXCEPT ![c] = {}]
    /\ done' = done \ {c}
    /\ inOrder' = (inOrder /\ done = Preceding(notebook, c))
    /\ UNCHANGED <<notebook, names, files, vals, cube_file, cloud, fsAnon,
                   requests, downloads, tasks>>

\* the last component of an S3 path
Basename(path) == path[Len(path)]

\* the local file a statement writes: a destination of "." keeps the
\* object's own name
Target(st) == IF st.dest = "." THEN Basename(st.path) ELSE st.dest

\* Python raises NameError on a name that is not bound, and the file
\* readers raise FileNotFoundError on a file that is not there.
Failure(st) ==
    IF st.kind # "shell" /\ ~(st.uses \subseteq names) THEN "NameError"
    ELSE IF st.file # "" /\ st.file \notin files THEN "FileNotFoundError"
    ELSE "none"

\* What a statement adds to its cell's output: what it prints or draws,
\* and, for the cell's last statement only, the value of a bare expression
\* that is not None and not silenced by a semicolon.
Shown(st, last) ==
    st.shows \cup
        (IF last /\ st.kind = "expr" /\ ~st.semi /\ st.value # "none"
         THEN {st.value} ELSE {})

\* the direct S3 request a statement issues, if any: the aws command signs
\* unless told not to, s3fs signs unless the file system is anonymous
Request(c, i, st) ==
    IF st.op \in {"aws_ls", "aws_cp"}
    THEN {[cell |-> c, stmt |-> i, signed |-> "--no-sign-request" \notin st.flags]}
    ELSE IF st.op \in {"s3fs_ls", "s3fs_get"}
    THEN {[cell |-> c, stmt |-> i, signed |-> fsAnon # "anon"]}
    ELSE {}

\* The running cell executes its next statement.
Exec ==
    \E c \in running :
        LET st == Code(c)[pc]
            last == pc = Len(Code(c))
        IN  /\ Failure(st) = "none"
            /\ names' = names \cup st.defs
            /\ files' = files \cup (IF st.dest # "" /\ ~st.bg THEN {Target(st)} ELSE {})
            /\ vals' = IF st.op = "literal" THEN st.lit ELSE vals
            /\ cube_file' = IF st.op = "fstring"
                            THEN CubeFile(vals[1], vals[2], vals[3])
                            ELSE cube_file
            /\ cloud' = (cloud \/ st.op = "enable_cloud_dataset")
            /\ fsAnon' = IF st.op = "S3FileSystem"
                         THEN (IF "anon" \in st.flags THEN "anon" ELSE "signed")
                         ELSE fsAnon
            /\ requests' = requests \cup Request(c, pc, st)
            /\ downloads' = downloads \cup
                   (IF st.op = "download"
                    THEN {[cell |-> c, cloud |-> cloud]} ELSE {})
            /\ tasks' = tasks \cup (IF st.bg THEN {<<c, pc>>} ELSE {})
            /\ display' = [display EXCEPT ![c] = @ \cup Shown(st, last)]
            /\ IF last
               THEN running' = {} /\ pc' = 0 /\ done' = done \cup {c}
               ELSE running' = running /\ pc' = pc + 1 /\ done' = done
            /\ UNCHANGED <<notebook, error, inOrder>>

\* The running cell's next statement raises: the cell stops there.
Raise ==
    \E c \in running :
        LET st == Code(c)[pc]
        IN  /\ Failure(st) # "none"
            /\ error' = [cell |-> c, kind |-> Failure(st)]
            /\ display' = [display EXCEPT ![c] = @ \cup {"traceback"}]
            /\ running' = {}
            /\ pc' = 0
            /\ UNCHANGED <<notebook, names, files, vals, cube_file, cloud,
                           fsAnon, done, requests, downloads, tasks, inOrder>>

\* The kernel is restarted on notebook nb: a fresh namespace; the files in
\* the working directory stay.
Restart(nb) ==
    /\ notebook' = nb
    /\ names' = {}
    /\ vals' = <<>>
    /\ cube_file' = ""
    /\ cloud' = FALSE
    /\ fsAnon' = "unset"
    /\ running' = {}
    /\ pc' = 0
    /\ done' = {}
    /\ error' = NoError
    /\ display' = NoDisplay
    /\ requests' = {}
    /\ downloads' = {}
    /\ tasks' = {}
    /\ inOrder' = TRUE
    /\ UNCHANGED files

Next ==
    \/ \E c \in AllCells : RunCell(c)
    \/ Exec
    \/ Raise
    \/ \E nb \in Notebooks : Restart(nb)

Spec == Init /\ [][Next]_vars

(***************************************************************************)
(* The f-string of cell obvious-party on its own: the cell is at its       *)
(* second statement with any values bound to sector, camera and ccd.       *)
(***************************************************************************)
InitCube ==
    /\ notebook = "tesscut"
    /\ names = {"sector", "camera", "ccd"}
    /\ files = {}
    /\ vals \in Sectors \X Cameras \X Ccds
    /\ cube_file = ""
    /\ cloud = FALSE
    /\ fsAnon = "unset"
    /\ running = {"obvious-party"}
    /\ pc = 2
    /\ done = {}
    /\ error = NoError
    /\ display = NoDisplay
    /\ requests = {}
    /\ downloads = {}
    /\ tasks = {}
    /\ inOrder = FALSE

FormatCube == pc = 2 /\ Exec

SpecCube == InitCube /\ [][FormatCube]_vars

(***************************************************************************)
(* Zero-padded decimal notation, stated by position rather than by the     *)
(* formatting algorithm: the field of width w holds, at each place, the    *)
(* digit of that power of ten.                                             *)
(***************************************************************************)
RECURSIVE Pow10(_)
Pow10(k) == IF k = 0 THEN 1 ELSE 10 * Pow10(k - 1)

\* how many digits n takes without leading zeros
NumDigits(n) == CHOOSE k \in 1 .. 9 : n < Pow10(k) /\ (k = 1 \/ n >= Pow10(k - 1))

RECURSIVE Positional(_, _)
Positional(n, w) ==
    IF w = 0 THEN ""
    ELSE DigitChar((n \div Pow10(w - 1)) % 10) \o Positional(n, w - 1)

Decimal(n) == Positional(n, NumDigits(n))

AtLeast4Digits(n) == Positional(n, IF NumDigits(n) < 4 THEN 4 ELSE NumDigits(n))

\* C1: for every sector, camera and ccd the cube location is
\* 's3://stpubdata/tess/public/mast/tess-s', the sector in decimal
\* zero-padded to at least 4 digits, '-', the camera, '-', the ccd and
\* '-cube.fits'; sector 11, camera 4, ccd 1 and the notebook's own 27, 3, 3
\* give the two locations the notebook spells out.
C1_CubeLocation ==
    cube_file # "" =>
        /\ cube_file = "s3://stpubdata/tess/public/mast/tess-s"
                           \o AtLeast4Digits(vals[1]) \o "-" \o Decimal(vals[2])
                           \o "-" \o Decimal(vals[3]) \o "-cube.fits"
        /\ vals = <<11, 4, 1>> =>
               cube_file = "s3://stpubdata/tess/public/mast/tess-s0011-4-1-cube.fits"
        /\ vals = <<27, 3, 3>> =>
               cube_file = "s3://stpubdata/tess/public/mast/tess-s0027-3-3-cube.fits"

\* the f-string has been evaluated for sector 11, camera 4, ccd 1
C1_Sector11 ==
    /\ vals = <<11, 4, 1>>
    /\ cube_file = "s3://stpubdata/tess/public/mast/tess-s0011-4-1-cube.fits"

\* C2: every direct request to the S3 bucket that the data-access notebook
\* issues, by an aws command or through the s3fs file system, is unsigned:
\* none needs AWS credentials.
C2_Unsigned == \A r \in requests : ~r.signed

\* the three aws commands and both s3fs calls have issued their requests
C2_AllRequested ==
    /\ notebook = "data"
    /\ {r.cell : r \in requests} = {"aws-ls-tess", "aws-ls-proxima", "aws-cp", "s3fs"}
    /\ Cardinality(requests) = 5

\* C3: whenever a download starts, in the astroquery cell or the lightkurve
\* cell, the cloud dataset is already enabled, whatever ran before the cell
\* in the session, nothing included.
C3_CloudBeforeDownload == \A d \in downloads : d.cloud

\* the lightkurve cell ran alone in a fresh session and downloaded
C3_LightkurveAlone ==
    /\ done = {"lightkurve"}
    /\ downloads = {[cell |-> "lightkurve", cloud |-> TRUE]}

\* the names a cell binds itself
OwnNames(c) == UNION {Code(c)[i].defs : i \in 1 .. Len(Code(c))}

\* C4 as stated: a code cell run alone in a fresh session (no other cell
\* has bound a name in it) reaches its end without an undefined-name or
\* missing-file error.
C4_Independent ==
    error.kind # "none" => ~(done = {} /\ names \subseteq OwnNames(error.cell))

\* C4 as amended: run top to bottom in one session, no cell of either
\* notebook ends in an undefined-name or missing-file error; run in another
\* order, only conscious-employment can hit an undefined name, and only
\* while wireless-walker or obvious-party has not run, and only
\* administrative-green can miss a file, and only while conscious-employment
\* has not run.
C4_Sequential ==
    /\ inOrder => error.kind = "none"
    /\ error.kind = "NameError" =>
           /\ error.cell = "conscious-employment"
           /\ ~({"wireless-walker", "obvious-party"} \subseteq done)
    /\ error.kind = "FileNotFoundError" =>
           /\ error.cell = "administrative-green"
           /\ "conscious-employment" \notin done

\* the cutout notebook has run top to bottom, to the end of its last cell
C4_RanTopToBottom == inOrder /\ done = CellIds("tesscut")

C6_DescribedOutput ==
    /\ "conscious-employment" \in done => CutoutFile \in files
    /\ "astroquery" \in done => MastDownload \in files
    /\ "lightkurve" \in done => MastDownload \in files
    /\ "aws-cp" \in done => ProductFile \in files
    /\ "s3fs" \in done => "proxima_cen_tp.fits" \in files
    /\ \A c \in {"aws-ls-tess", "aws-ls-proxima", "s3fs"} :
           c \in done => "listing" \in display[c]

\* C6 without the fs.ls cell's listing: the files and the aws listings
C6_FilesAndAwsListings ==
    /\ "conscious-employment" \in done => CutoutFile \in files
    /\ "astroquery" \in done => MastDownload \in files
    /\ "lightkurve" \in done => MastDownload \in files
    /\ "aws-cp" \in done => ProductFile \in files
    /\ "s3fs" \in done => "proxima_cen_tp.fits" \in files
    /\ \A c \in {"aws-ls-tess", "aws-ls-proxima"} :
           c \in done => "listing" \in display[c]
====
